---- MODULE Spec2Model ----
(***************************************************************************)
(* A model of koa's Application (src/examples/index.js): middleware        *)
(* registration (use), the request handler built by callback(), the        *)
(* per-request pipeline run of handleRequest, createContext, and the       *)
(* response finalizer respond().                                           *)
(*                                                                         *)
(* Text (JS strings) is a sequence of code points, a Buffer a sequence of  *)
(* bytes.  A JS promise is its state: <<"none">> (not created),            *)
(* <<"pending">>, <<"ok">> (fulfilled) or a failure value                  *)
(* (<<"thrown", i>>: the error thrown by middleware i, <<"multi">>: the    *)
(* composer's 'next() called multiple times' error).                       *)
(***************************************************************************)
EXTENDS Integers, Sequences, FiniteSets, TLC

\* Bounds of the model.
MaxMw == 3
MaxLen == 2

Requests == {"A", "B"}

SeqsUpTo(S, n) == UNION {[1..k -> S] : k \in 0..n}

(***************************************************************************)
(* JS runtime helpers used by respond().                                   *)
(***************************************************************************)

RECURSIVE Digits(_)
Digits(n) == IF n < 10 THEN <<48 + n>> ELSE Digits(n \div 10) \o <<48 + (n % 10)>>

\* String(code)
String(code) == Digits(code)

Utf8Width(cp) == IF cp < 128 THEN 1 ELSE IF cp < 2048 THEN 2 ELSE IF cp < 65536 THEN 3 ELSE 4

RECURSIVE ByteLength(_)
\* Buffer.byteLength(text): the length of the UTF-8 encoding
ByteLength(s) == IF s = <<>> THEN 0 ELSE Utf8Width(Head(s)) + ByteLength(Tail(s))

RECURSIVE JoinNumbers(_)
JoinNumbers(a) ==
    IF a = <<>> THEN <<>>
    ELSE IF Len(a) = 1 THEN Digits(a[1])
    ELSE Digits(a[1]) \o <<44>> \o JoinNumbers(Tail(a))

\* JSON.stringify of an array of numbers: "[" digits "," digits ... "]"
JSONstringify(a) == <<91>> \o JoinNumbers(a) \o <<93>>

(***************************************************************************)
(* Body values: ctx.body.                                                  *)
(***************************************************************************)

Bytes == {0, 200}
Chars == {97, 233}
Numbers == {0, 12}

Undefined == [type |-> "undefined", data |-> <<>>]
Null == [type |-> "null", data |-> <<>>]
StreamBody == [type |-> "stream", data |-> <<>>]
\* a structured value JSON.stringify throws on (a circular structure)
Circular == [type |-> "circular", data |-> <<>>]
Buffers == {[type |-> "buffer", data |-> d] : d \in SeqsUpTo(Bytes, MaxLen)}
Strings == {[type |-> "string", data |-> d] : d \in SeqsUpTo(Chars, MaxLen)}
Json == {[type |-> "json", data |-> d] : d \in SeqsUpTo(Numbers, 1)}

Bodies == {Undefined, Null, StreamBody, Circular} \cup Buffers \cup Strings \cup Json

\* the body the example's last middleware sets: ctx.body = 'hello'
Hello == [type |-> "string", data |-> <<104, 101, 108, 108, 111>>]

(***************************************************************************)
(* The transport response (node's ServerResponse) and koa's response       *)
(* accessors respond() goes through.                                       *)
(***************************************************************************)

NoPayload == [kind |-> "none", data |-> <<>>]

\* statuses.empty: the codes whose response carries no body
statusesEmpty == {204, 205, 304}

\* statuses[code]: the human-readable message, <<>> when the code has none
statuses(code) ==
    CASE code = 200 -> <<79, 75>>
      [] code = 204 -> <<78, 111, 32, 67, 111, 110, 116, 101, 110, 116>>
      [] code = 205 -> <<82, 101, 115, 101, 116, 32, 67, 111, 110, 116, 101, 110, 116>>
      [] code = 304 -> <<78, 111, 116, 32, 77, 111, 100, 105, 102, 105, 101, 100>>
      [] code = 404 -> <<78, 111, 116, 32, 70, 111, 117, 110, 100>>
      [] OTHER -> <<>>

\* res.end(payload): writes the final bytes and closes the response
resEnd(t, payload) ==
    [t EXCEPT !.endCalls = @ + 1, !.payload = payload,
              !.writableEnded = TRUE, !.headersSent = TRUE]

\* ctx.writable
writable(t) == ~t.writableEnded /\ t.socketWritable

\* ctx.message
message(t) == IF t.statusMessage # <<>> THEN t.statusMessage ELSE statuses(t.statusCode)

\* ctx.response.has('Content-Length')
hasContentLength(t) == t.contentLength # <<>>

\* a remove that does not look at headersSent
removeAlways(t, field) ==
    CASE field = "Content-Type" -> [t EXCEPT !.contentType = "", !.hdrOps = @ + 1]
      [] field = "Content-Length" -> [t EXCEPT !.contentLength = <<>>, !.hdrOps = @ + 1]
      [] field = "Transfer-Encoding" -> [t EXCEPT !.transferEncoding = FALSE, !.hdrOps = @ + 1]

\* ctx.response.remove(field), for the three body headers
remove(t, field) ==
    IF t.headersSent THEN t
    ELSE CASE field = "Content-Type" -> [t EXCEPT !.contentType = "", !.hdrOps = @ + 1]
           [] field = "Content-Length" -> [t EXCEPT !.contentLength = <<>>, !.hdrOps = @ + 1]
           [] field = "Transfer-Encoding" -> [t EXCEPT !.transferEncoding = FALSE, !.hdrOps = @ + 1]

\* ctx.length = n
setLength(t, n) ==
    IF t.headersSent THEN t ELSE [t EXCEPT !.contentLength = <<n>>, !.hdrOps = @ + 1]

\* ctx.type = 'text'
setTypeText(t) ==
    IF t.headersSent THEN t ELSE [t EXCEPT !.contentType = "text/plain", !.hdrOps = @ + 1]

\* ctx.response.length of a body that can be measured; <<>> is undefined
responseLength(c, t) ==
    IF hasContentLength(t) THEN t.contentLength
    ELSE CASE c.body.type \in {"undefined", "null", "stream"} -> <<>>
           [] c.body.type = "string" ->
                IF c.body.data = <<>> THEN <<>> ELSE <<ByteLength(c.body.data)>>
           [] c.body.type = "buffer" -> <<Len(c.body.data)>>
           [] c.body.type = "json" -> <<ByteLength(JSONstringify(c.body.data))>>
           [] OTHER -> <<>>

\* ctx.body = null, as respond() uses it: the body is discarded and the body
\* headers are stripped
setBodyNull(c, t) ==
    [ctx |-> [c EXCEPT !.body = Null],
     res |-> remove(remove(remove(t, "Content-Type"), "Content-Length"),
                    "Transfer-Encoding")]

(***************************************************************************)
(* respond(ctx): the response finalizer.  The result is the context and    *)
(* the transport response after the call, and whether the call threw.      *)
(***************************************************************************)

returned(c, t) == [ctx |-> c, res |-> t, threw |-> FALSE]
threw(c, t) == [ctx |-> c, res |-> t, threw |-> TRUE]

\* the no-body branch without ctx.body = null
respondEmptyStatusKeepBody(c, t) == returned(c, resEnd(t, NoPayload))

\* if (statuses.empty[code]) { ctx.body = null; return res.end(); }
respondEmptyStatus(c, t) ==
    LET s == setBodyNull(c, t) IN returned(s.ctx, resEnd(s.res, NoPayload))

\* the HEAD branch ending the response once for the length and once more
respondHeadEndTwice(c, t) == returned(c, resEnd(resEnd(t, NoPayload), NoPayload))

\* the HEAD branch without the length
respondHeadNoLength(c, t) == returned(c, resEnd(t, NoPayload))

\* if ('HEAD' === ctx.method) { ... return res.end(); }
respondHead(c, t) ==
    IF ~t.headersSent /\ ~hasContentLength(t)
    THEN IF c.body.type = "circular" THEN threw(c, t)
         ELSE LET length == responseLength(c, t) IN
              returned(c, resEnd(IF length # <<>> THEN setLength(t, length[1]) ELSE t,
                                 NoPayload))
    ELSE returned(c, resEnd(t, NoPayload))

\* the fallback body measured in characters, not bytes
respondNullBodyCharLength(c, q, t) ==
    IF c.explicitNullBody
    THEN returned(c, resEnd(remove(remove(t, "Content-Type"), "Transfer-Encoding"),
                            NoPayload))
    ELSE LET code == t.statusCode
             body == IF q.httpVersionMajor >= 2 THEN String(code)
                     ELSE IF message(t) # <<>> THEN message(t) ELSE String(code)
             t1 == IF ~t.headersSent THEN setLength(setTypeText(t), Len(body)) ELSE t
         IN returned(c, resEnd(t1, [kind |-> "string", data |-> body]))

\* if (null == body) { ... return res.end(body); }
respondNullBody(c, q, t) ==
    IF c.explicitNullBody
    THEN returned(c, resEnd(remove(remove(t, "Content-Type"), "Transfer-Encoding"),
                            NoPayload))
    ELSE LET code == t.statusCode
             body == IF q.httpVersionMajor >= 2 THEN String(code)
                     ELSE IF message(t) # <<>> THEN message(t) ELSE String(code)
             t1 == IF ~t.headersSent THEN setLength(setTypeText(t), ByteLength(body))
                   ELSE t
         IN returned(c, resEnd(t1, [kind |-> "string", data |-> body]))

\* body = JSON.stringify(body); ...; res.end(body);
respondJson(c, t) ==
    IF c.body.type = "circular" THEN threw(c, t)
    ELSE LET body == JSONstringify(c.body.data)
             t1 == IF ~t.headersSent THEN setLength(t, ByteLength(body)) ELSE t
         IN returned(c, resEnd(t1, [kind |-> "string", data |-> body]))

\* the buffer ended as text: every byte decoded as one character
respondBufferAsText(c, t) ==
    returned(c, resEnd(t, [kind |-> "string", data |-> c.body.data]))

\* if (Buffer.isBuffer(body)) return res.end(body);
respondBuffer(c, t) == returned(c, resEnd(t, [kind |-> "buffer", data |-> c.body.data]))

\* if ('string' === typeof body) return res.end(body);
respondString(c, t) == returned(c, resEnd(t, [kind |-> "string", data |-> c.body.data]))

\* a stream branch that pipes the body and ends the response at once
respondStreamEndNow(c, t) == returned(c, resEnd([t EXCEPT !.piped = TRUE], NoPayload))

\* if (body instanceof Stream) return body.pipe(res);
respondStream(c, t) == returned(c, [t EXCEPT !.piped = TRUE])

respond(c, q, t) ==
    IF c.respond = FALSE THEN returned(c, t)
    ELSE IF ~writable(t) THEN returned(c, t)
    ELSE IF t.statusCode \in statusesEmpty THEN respondEmptyStatus(c, t)
    ELSE IF q.method = "HEAD" THEN respondHead(c, t)
    ELSE IF c.body.type \in {"undefined", "null"} THEN respondNullBody(c, q, t)
    ELSE IF c.body.type = "buffer" THEN respondBuffer(c, t)
    ELSE IF c.body.type = "string" THEN respondString(c, t)
    ELSE IF c.body.type = "stream" THEN respondStream(c, t)
    ELSE respondJson(c, t)

(***************************************************************************)
(* State.                                                                  *)
(***************************************************************************)
VARIABLES
    middleware,     \* app.middleware: the registered middleware, in order
    listening,      \* callback() has built the request handler
    lastThrow,      \* what the latest call of an application method threw
    lastReturn,     \* what it returned
    arrivals,       \* the requests the transport has still to deliver
    req,            \* per request: the raw request (method, url, protocol version)
    res,            \* per request: the transport response
    ctx,            \* per request: the context's fields
    phase,          \* per request: "idle", "handling" (handleRequest called)
    index,          \* per request: the composed handler's dispatch index
    pc,             \* per request and middleware: next op (0: never invoked)
    D,              \* per request, D[i]: the promise dispatch(i) returned
    waiter,         \* per request, waiter[i]: a reaction is registered on D[i]
    log,            \* per request: the shared log the middleware append to
    invoked,        \* per request and middleware: times the function was called
    nextCalls,      \* per request and middleware: times it called its continuation
    P1,             \* per request: the promise fnMiddleware(ctx).then(handleResponse)
    respondCalls,   \* per request: calls of respond(ctx)
    respondArg,     \* per request: the state respond(ctx) was called in
    respondThrew,   \* per request: respond(ctx) threw
    pendingAtRespond, \* per request: middleware still unfinished when respond ran
    onerrorArgs,    \* per request: the values passed to ctx.onerror
    heap,           \* the objects: the application, its templates, the contexts
    objs,           \* per request: its context object (0: none yet)
    wrote,          \* the <<request, object>> pairs a middleware has written to
    silent,         \* app.silent
    console,        \* the arguments of the console.error calls made, in order
    errArg,         \* the value Application.onerror was called with
    stack,          \* the synchronous call stack, top last
    mq              \* the microtask queue (promise reaction jobs), head first

appVars == <<middleware, listening, lastThrow, lastReturn>>
ioVars == <<req, res, ctx>>
runVars == <<phase, index, pc, D, waiter, log, invoked, nextCalls>>
endVars == <<P1, respondCalls, respondArg, respondThrew, pendingAtRespond, onerrorArgs>>
ctxVars == <<heap, objs, wrote>>
errVars == <<silent, console, errArg>>
vars == <<appVars, errVars, ctxVars, arrivals, ioVars, runVars, endVars, stack, mq>>

(***************************************************************************)
(* Objects.  An object is its prototype (0: none) and its own properties;  *)
(* a property read goes up the prototype chain, a write sets an own        *)
(* property.  The heap is the sequence of the objects created so far.      *)
(***************************************************************************)

Props == {"context", "request", "response", "app", "req", "res", "ctx",
          "originalUrl", "state", "url", "x"}

Absent == [tag |-> "absent", n |-> 0, s |-> <<>>]
Ref(o) == [tag |-> "ref", n |-> o, s |-> <<>>]
Str(s) == [tag |-> "str", n |-> 0, s |-> s]
Num(n) == [tag |-> "num", n |-> n, s |-> <<>>]

\* Object.create(proto)
ObjectCreate(proto) == [proto |-> proto, own |-> [p \in Props |-> Absent]]

RECURSIVE Get(_, _, _)
\* o.p
Get(h, o, p) ==
    IF h[o].own[p] # Absent THEN h[o].own[p]
    ELSE IF h[o].proto = 0 THEN Absent
    ELSE Get(h, h[o].proto, p)

\* o.p = v
Put(h, o, p, v) == [h EXCEPT ![o].own[p] = v]

\* new Koa(): the application (object 1) and its context, request and
\* response templates (objects 2, 3, 4)
NewApplication ==
    LET h == <<ObjectCreate(0), ObjectCreate(0), ObjectCreate(0), ObjectCreate(0)>>
    IN Put(Put(Put(h, 1, "context", Ref(2)), 1, "request", Ref(3)), 1, "response", Ref(4))

UrlA == <<47, 97>>
UrlB == <<47, 98>>

\* node's http server hands the handler a new req (with its url) and a new res
incoming(h, q) ==
    Put(Append(Append(h, ObjectCreate(0)), ObjectCreate(0)), Len(h) + 1, "url", Str(q.url))

(***************************************************************************)
(* Application.createContext.                                              *)
(***************************************************************************)

\* the assignments of createContext, on the context c, the request facade
\* rq, the response facade rs and the state object st
link(h, req0, res0, c, rq, rs, st) ==
    LET h1 == Put(Put(h, c, "request", Ref(rq)), c, "response", Ref(rs))
        h2 == Put(Put(Put(h1, c, "app", Ref(1)), rq, "app", Ref(1)), rs, "app", Ref(1))
        h3 == Put(Put(Put(h2, c, "req", Ref(req0)), rq, "req", Ref(req0)), rs, "req", Ref(req0))
        h4 == Put(Put(Put(h3, c, "res", Ref(res0)), rq, "res", Ref(res0)), rs, "res", Ref(res0))
        h5 == Put(Put(h4, rq, "ctx", Ref(c)), rs, "ctx", Ref(c))
        h6 == Put(Put(h5, rq, "response", Ref(rs)), rs, "request", Ref(rq))
        h7 == Put(Put(h6, c, "originalUrl", Get(h6, req0, "url")),
                  rq, "originalUrl", Get(h6, req0, "url"))
    IN Put(h7, c, "state", Ref(st))

\* a createContext that uses the application's request and response
\* templates themselves as the facades
createContextShared(h, req0, res0) ==
    LET k == Len(h)
        h1 == h \o <<ObjectCreate(Get(h, 1, "context").n), ObjectCreate(0)>>
    IN [heap |-> link(h1, req0, res0, k + 1, Get(h, 1, "request").n,
                     Get(h, 1, "response").n, k + 2),
        context |-> k + 1]

\* createContext(req, res): the heap with the new context, and the context
createContext(h, req0, res0) ==
    LET k == Len(h)
        h1 == h \o <<ObjectCreate(Get(h, 1, "context").n),
                     ObjectCreate(Get(h, 1, "request").n),
                     ObjectCreate(Get(h, 1, "response").n),
                     ObjectCreate(0)>>
    IN [heap |-> link(h1, req0, res0, k + 1, k + 2, k + 3, k + 4),
        context |-> k + 1]

(***************************************************************************)
(* Middleware.  A middleware function is the list of its steps:            *)
(*   "log"        append the function's own number to the shared log       *)
(*   "next"       call next() and drop the promise it returns              *)
(*   "nextAwait"  await next()                                             *)
(*   "nextCatch"  try { await next() } catch (e) {}                        *)
(*   "setBody"    ctx.body = 'hello'                                       *)
(*   "throw"      throw an error                                           *)
(*   "io"         await something outside the pipeline (a timer, a read)   *)
(***************************************************************************)

Kinds == {"onion", "fire", "terminal", "thrower", "guard",
          "twiceAwait", "twiceIgnore", "twiceCatch"}

\* middleware that wait for something outside the pipeline on their way
IoKinds == {"ioOnion", "ioTwice"}

\* the k-th function the application's author wrote: its steps are those of
\* `kind`, and the number it appends to the log is id
Fn(kind, id) == [kind |-> kind, id |-> id]

\* a value that is not a function, handed to use()
NonFunction == [kind |-> "notAFunction", id |-> 0]

\* a check that takes any value for a function
anyValue(fn) == TRUE

\* typeof fn === 'function'
isFunction(fn) == fn.kind \in Kinds \cup IoKinds

Prog(k) ==
    CASE k = "onion" -> <<"log", "nextAwait", "log">>
      [] k = "fire" -> <<"log", "next", "log">>
      [] k = "terminal" -> <<"log", "setBody">>
      [] k = "thrower" -> <<"log", "throw">>
      [] k = "guard" -> <<"log", "nextCatch", "log">>
      [] k = "twiceAwait" -> <<"log", "nextAwait", "nextAwait", "log">>
      [] k = "twiceIgnore" -> <<"log", "next", "next", "log">>
      [] k = "twiceCatch" -> <<"log", "nextAwait", "nextCatch", "log">>
      [] k = "ioOnion" -> <<"log", "io", "nextAwait", "io", "log">>
      [] k = "ioTwice" -> <<"log", "nextAwait", "io", "nextAwait", "log">>

NextOps == {"next", "nextAwait", "nextCatch"}

Ok == <<"ok">>
Pending == <<"pending">>
None == <<"none">>
Multi == <<"multi">>
Thrown(i) == <<"thrown", i>>
Settled(p) == p # None /\ p # Pending

\* the middleware at position i (positions count from 0, as dispatch's index does)
kindAt(i) == middleware[i + 1].kind
progAt(i) == Prog(kindAt(i))
finishedPc(i) == Len(progAt(i)) + 1

hrFrame(r) == [r |-> r, i |-> -1, calling |-> TRUE, ret |-> "D"]
mwFrame(r, i) == [r |-> r, i |-> i, calling |-> FALSE, ret |-> "D"]
Top == stack[Len(stack)]
Pop == SubSeq(stack, 1, Len(stack) - 1)
Calling == [stack EXCEPT ![Len(stack)].calling = TRUE, ![Len(stack)].ret = "D"]

resumeJob(r, i, v) == [kind |-> "resume", r |-> r, i |-> i, v |-> v]
thenJob(r, v) == [kind |-> "then", r |-> r, i |-> -1, v |-> v]
catchJob(r, v) == [kind |-> "catch", r |-> r, i |-> -1, v |-> v]

\* the reaction registered on D[i]: the caller of dispatch(i) is middleware
\* i - 1, or handleRequest for i = 0
reaction(r, i, v) == IF i = 0 THEN thenJob(r, v) ELSE resumeJob(r, i - 1, v)

\* a settlement nobody hears of: the registered reaction is not queued
settleUnheard(r, i, v, q) ==
    /\ D' = [D EXCEPT ![r][i] = v]
    /\ mq' = q

\* D[i] settles with v; its reaction, if registered, is queued behind q
settle(r, i, v, q) ==
    /\ D' = [D EXCEPT ![r][i] = v]
    /\ mq' = IF waiter[r][i] THEN Append(q, reaction(r, i, v)) ELSE q

(***************************************************************************)
(* The composer (koa-compose), as callback() uses it.                      *)
(***************************************************************************)

\* a composer that keeps one dispatch index for all the runs
sharedRun(r) == "A"

\* the run a call of the composed handler keeps its dispatch index for: its
\* own (let index = -1 in every call)
ownRun(r) == r

\* a composer without the check
neverCalledTwice(i, idx) == FALSE

\* if (i <= index) return Promise.reject(new Error('next() called multiple times'))
calledTwice(i, idx) == i <= idx

\* dispatch(i), called from the frame on top of `below`
dispatch(r, i, below) ==
    IF calledTwice(i, index[ownRun(r)])
    THEN /\ stack' = [below EXCEPT ![Len(below)].ret = "multi"]
         /\ UNCHANGED <<index, D, pc, invoked>>
    ELSE /\ index' = [index EXCEPT ![ownRun(r)] = i]
         /\ IF i = Len(middleware)
            THEN /\ D' = [D EXCEPT ![r][i] = Ok]
                 /\ stack' = below
                 /\ UNCHANGED <<pc, invoked>>
            ELSE /\ D' = [D EXCEPT ![r][i] = Pending]
                 /\ pc' = [pc EXCEPT ![r][i] = 1]
                 /\ invoked' = [invoked EXCEPT ![r][i] = @ + 1]
                 /\ stack' = Append(below, mwFrame(r, i))

(***************************************************************************)
(* Application.use and Application.callback.                               *)
(***************************************************************************)

\* a registration that puts the function first
pushFront(list, fn) == <<fn>> \o list

\* this.middleware.push(fn)
push(list, fn) == Append(list, fn)

\* the function value callback() returns
Handler == [tag |-> "function", n |-> 0, s |-> <<>>]

use(fn) ==
    /\ ~listening
    /\ IF ~isFunction(fn)
       THEN /\ lastThrow' = "TypeError"
            /\ lastReturn' = Absent
            /\ UNCHANGED middleware
       ELSE /\ Len(middleware) < MaxMw
            /\ middleware' = push(middleware, fn)
            /\ lastThrow' = "none"
            /\ lastReturn' = Ref(1)
    /\ UNCHANGED <<listening, errVars, ctxVars, arrivals, ioVars, runVars, endVars, stack, mq>>

callback ==
    /\ ~listening
    /\ listening' = TRUE
    /\ lastThrow' = "none"
    /\ lastReturn' = Handler
    /\ UNCHANGED <<middleware, errVars, ctxVars, arrivals, ioVars, runVars, endVars, stack, mq>>

(***************************************************************************)
(* The request handler callback() returns, and Application.handleRequest.  *)
(***************************************************************************)

\* the response fields of a new context: nothing set yet
NewFields ==
    [respond |-> TRUE, body |-> Undefined, explicitNullBody |-> FALSE,
     streamOpen |-> FALSE]

ReqInputs == [method : {"GET", "HEAD"}, httpVersionMajor : {1, 2}, url : {UrlA, UrlB}]

\* the requests the pipeline is run on
PipelineInputs == {q \in ReqInputs : q.method = "GET" /\ q.url = UrlA}

\* a handler that leaves the status code as the transport made it
keepStatus(t) == t

\* res.statusCode = 404
defaultStatus(t) == [t EXCEPT !.statusCode = 404]

\* a request arrives: createContext, then handleRequest up to its call of
\* fnMiddleware(ctx)
handleRequest(r, q) ==
    /\ listening /\ stack = <<>> /\ mq = <<>>
    /\ r \in arrivals
    /\ arrivals' = arrivals \ {r}
    /\ req' = [req EXCEPT ![r] = q]
    /\ LET made == createContext(incoming(heap, q), Len(heap) + 1, Len(heap) + 2)
       IN heap' = made.heap /\ objs' = [objs EXCEPT ![r] = made.context]
    /\ ctx' = [ctx EXCEPT ![r] = NewFields]
    /\ res' = [res EXCEPT ![r] = defaultStatus(@)]
    /\ phase' = [phase EXCEPT ![r] = "handling"]
    /\ dispatch(r, 0, <<hrFrame(r)>>)
    /\ UNCHANGED <<appVars, errVars, wrote, waiter, log, nextCalls, endVars, mq>>

\* a handler that runs handleResponse without waiting for the pipeline
handleRequestThenEager ==
    /\ stack # <<>> /\ Top.i = -1
    /\ mq' = Append(mq, thenJob(Top.r, Ok))
    /\ stack' = Pop
    /\ UNCHANGED <<appVars, errVars, ctxVars, arrivals, ioVars, phase, index, pc, D, waiter, log,
                   invoked, nextCalls, endVars>>

\* fnMiddleware(ctx) has returned its promise: .then(handleResponse).catch(onerror)
handleRequestThen ==
    /\ stack # <<>> /\ Top.i = -1
    /\ LET r == Top.r
           p == IF Top.ret = "multi" THEN Multi ELSE D[r][0]
       IN
       IF Settled(p)
       THEN /\ mq' = Append(mq, thenJob(r, p))
            /\ UNCHANGED waiter
       ELSE /\ waiter' = [waiter EXCEPT ![r][0] = TRUE]
            /\ UNCHANGED mq
    /\ stack' = Pop
    /\ UNCHANGED <<appVars, errVars, ctxVars, arrivals, ioVars, phase, index, pc, D, log, invoked,
                   nextCalls, endVars>>

(***************************************************************************)
(* One step of the middleware on top of the stack.                         *)
(***************************************************************************)

Running(op) ==
    /\ stack # <<>> /\ Top.i >= 0 /\ ~Top.calling
    /\ pc[Top.r][Top.i] <= Len(progAt(Top.i))
    /\ progAt(Top.i)[pc[Top.r][Top.i]] = op

Advance(r, i) == pc' = [pc EXCEPT ![r][i] = @ + 1]

mwLog ==
    /\ Running("log")
    /\ log' = [log EXCEPT ![Top.r] = Append(@, middleware[Top.i + 1].id)]
    /\ Advance(Top.r, Top.i)
    /\ UNCHANGED <<appVars, errVars, ctxVars, arrivals, ioVars, phase, index, D, waiter, invoked,
                   nextCalls, endVars, stack, mq>>

mwSetBody ==
    /\ Running("setBody")
    /\ ctx' = [ctx EXCEPT ![Top.r].body = Hello]
    /\ Advance(Top.r, Top.i)
    /\ UNCHANGED <<appVars, errVars, ctxVars, arrivals, req, res, phase, index, D, waiter, log, invoked,
                   nextCalls, endVars, stack, mq>>

\* the function throws: dispatch's promise fails with the error
mwThrow ==
    /\ Running("throw")
    /\ settle(Top.r, Top.i, Thrown(Top.i), mq)
    /\ pc' = [pc EXCEPT ![Top.r][Top.i] = finishedPc(Top.i)]
    /\ stack' = Pop
    /\ UNCHANGED <<appVars, errVars, ctxVars, arrivals, ioVars, phase, index, waiter, log, invoked,
                   nextCalls, endVars>>

\* the function returns: dispatch's promise is fulfilled
mwReturn ==
    /\ stack # <<>> /\ Top.i >= 0 /\ ~Top.calling
    /\ pc[Top.r][Top.i] = finishedPc(Top.i)
    /\ settle(Top.r, Top.i, Ok, mq)
    /\ stack' = Pop
    /\ UNCHANGED <<appVars, errVars, ctxVars, arrivals, ioVars, phase, index, pc, waiter, log, invoked,
                   nextCalls, endVars>>

\* the function calls its continuation: next() is dispatch(i + 1)
mwNext ==
    /\ \E op \in NextOps : Running(op)
    /\ nextCalls' = [nextCalls EXCEPT ![Top.r][Top.i] = @ + 1]
    /\ dispatch(Top.r, Top.i + 1, Calling)
    /\ UNCHANGED <<appVars, errVars, ctxVars, arrivals, ioVars, phase, waiter, log, endVars, mq>>

\* next() has returned its promise to the function
mwAfterNext ==
    /\ stack # <<>> /\ Top.i >= 0 /\ Top.calling
    /\ LET r == Top.r
           i == Top.i
           op == progAt(i)[pc[r][i]]
           p == IF Top.ret = "multi" THEN Multi ELSE D[r][i + 1]
       IN IF op = "next"
          THEN /\ Advance(r, i)
               /\ stack' = [stack EXCEPT ![Len(stack)].calling = FALSE]
               /\ UNCHANGED <<waiter, mq>>
          ELSE \* await p: the function is suspended until p's reaction job runs
               /\ stack' = Pop
               /\ UNCHANGED pc
               /\ IF Settled(p)
                  THEN /\ mq' = Append(mq, resumeJob(r, i, p))
                       /\ UNCHANGED waiter
                  ELSE /\ waiter' = [waiter EXCEPT ![r][i + 1] = TRUE]
                       /\ UNCHANGED mq
    /\ UNCHANGED <<appVars, errVars, ctxVars, arrivals, ioVars, phase, index, D, log, invoked,
                   nextCalls, endVars>>

\* the function awaits something outside the pipeline: it is suspended until
\* the event loop delivers it
mwIo ==
    /\ Running("io")
    /\ stack' = Pop
    /\ UNCHANGED <<appVars, errVars, ctxVars, arrivals, ioVars, runVars, endVars, mq>>

\* the event loop, with nothing running and no job queued, delivers what
\* middleware i of request r waits for: its reaction job is queued
ioDone(r, i) ==
    /\ stack = <<>> /\ mq = <<>>
    /\ i < Len(middleware) /\ D[r][i] = Pending
    /\ pc[r][i] \in 1..Len(progAt(i)) /\ progAt(i)[pc[r][i]] = "io"
    /\ mq' = <<resumeJob(r, i, Ok)>>
    /\ UNCHANGED <<appVars, errVars, ctxVars, arrivals, ioVars, runVars, endVars, stack>>

(***************************************************************************)
(* Microtasks: the promise reaction jobs, run one at a time, oldest first, *)
(* whenever the call stack is empty.                                       *)
(***************************************************************************)

Job(kind) == stack = <<>> /\ mq # <<>> /\ Head(mq).kind = kind

\* the awaited promise has settled: the suspended function goes on, or, when
\* the promise failed outside a try block, fails with the same value
resume ==
    /\ Job("resume")
    /\ LET j == Head(mq)
           op == progAt(j.i)[pc[j.r][j.i]]
       IN IF op = "nextAwait" /\ j.v # Ok
          THEN /\ settle(j.r, j.i, j.v, Tail(mq))
               /\ pc' = [pc EXCEPT ![j.r][j.i] = finishedPc(j.i)]
               /\ UNCHANGED stack
          ELSE /\ mq' = Tail(mq)
               /\ Advance(j.r, j.i)
               /\ stack' = <<mwFrame(j.r, j.i)>>
               /\ UNCHANGED D
    /\ UNCHANGED <<appVars, errVars, ctxVars, arrivals, ioVars, phase, index, waiter, log, invoked,
                   nextCalls, endVars>>

\* const handleResponse = () => respond(ctx)
handleResponse(r) ==
    LET out == respond(ctx[r], req[r], res[r]) IN
    /\ respondCalls' = [respondCalls EXCEPT ![r] = @ + 1]
    /\ respondArg' = [respondArg EXCEPT ![r] =
                        [called |-> TRUE, ctx |-> ctx[r], req |-> req[r], res |-> res[r]]]
    /\ respondThrew' = [respondThrew EXCEPT ![r] = out.threw]
    /\ pendingAtRespond' = [pendingAtRespond EXCEPT ![r] =
                              {i \in 0..MaxMw : D[r][i] = Pending}]
    /\ ctx' = [ctx EXCEPT ![r] = out.ctx]
    /\ res' = [res EXCEPT ![r] = out.res]

\* .finally(handleResponse): handleResponse runs however the pipeline ended
onSettled(v) == TRUE

\* .then(handleResponse) runs handleResponse when fnMiddleware(ctx) is fulfilled
onFulfilled(v) == v = Ok

\* the reaction of fnMiddleware(ctx).then(handleResponse), pipeline fulfilled
thenFulfilled ==
    /\ Job("then") /\ onFulfilled(Head(mq).v)
    /\ LET r == Head(mq).r
           p1 == IF respond(ctx[r], req[r], res[r]).threw THEN <<"TypeError">> ELSE Ok
       IN /\ handleResponse(r)
          /\ P1' = [P1 EXCEPT ![r] = p1]
          /\ mq' = Append(Tail(mq), catchJob(r, p1))
    /\ UNCHANGED <<appVars, errVars, ctxVars, arrivals, req, runVars, onerrorArgs, stack>>

\* the same reaction, pipeline failed: the failure passes through .then
thenRejected ==
    /\ Job("then") /\ ~onFulfilled(Head(mq).v)
    /\ LET r == Head(mq).r
           v == Head(mq).v
       IN /\ P1' = [P1 EXCEPT ![r] = v]
          /\ mq' = Append(Tail(mq), catchJob(r, v))
    /\ UNCHANGED <<appVars, errVars, ctxVars, arrivals, ioVars, runVars, respondCalls, respondArg,
                   respondThrew, pendingAtRespond, onerrorArgs, stack>>

\* an error listener that passes a new error on, not the one it caught
onerrorWrapped(r, err) == onerrorArgs' = [onerrorArgs EXCEPT ![r] = Append(@, <<"wrapped">>)]

\* const onerror = err => ctx.onerror(err)
onerror(r, err) == onerrorArgs' = [onerrorArgs EXCEPT ![r] = Append(@, err)]

\* the reaction of .catch(onerror) to a failure
catchRejected ==
    /\ Job("catch") /\ Head(mq).v # Ok
    /\ onerror(Head(mq).r, Head(mq).v)
    /\ mq' = Tail(mq)
    /\ UNCHANGED <<appVars, errVars, ctxVars, arrivals, ioVars, runVars, P1, respondCalls, respondArg,
                   respondThrew, pendingAtRespond, stack>>

\* the reaction of .catch(onerror) to a success: nothing to do
catchFulfilled ==
    /\ Job("catch") /\ Head(mq).v = Ok
    /\ mq' = Tail(mq)
    /\ UNCHANGED <<appVars, errVars, ctxVars, arrivals, ioVars, runVars, endVars, stack>>

(***************************************************************************)
(* Application.onerror, the default listener of the 'error' event: it is   *)
(* called with any value, on an application that is or is not silent.      *)
(***************************************************************************)

\* a thrown value: whether it is an Error instance, its status (0: none),
\* its expose mark, its stack ("" when it has none) and what toString() gives
ErrTexts == {<<69>>, <<69, 10, 97>>}
ErrInputs ==
    [isError : BOOLEAN, status : {0, 404, 500}, expose : BOOLEAN,
     stack : {<<>>} \cup ErrTexts, text : ErrTexts]
NoErr == [isError |-> FALSE, status |-> 0, expose |-> FALSE, stack |-> <<>>, text |-> <<>>]

RECURSIVE IndentLines(_)
\* two spaces after every line break
IndentLines(s) ==
    IF s = <<>> THEN <<>>
    ELSE IF Head(s) = 10 THEN <<10, 32, 32>> \o IndentLines(Tail(s))
    ELSE <<Head(s)>> \o IndentLines(Tail(s))

\* msg.replace(/^/gm, '  '): two spaces in front of every line
Indent(msg) == <<32, 32>> \o IndentLines(msg)

\* what a call did: whether it threw, and the console.error arguments written
raised(what) == [threw |-> what, out |-> <<>>]
reported(out) == [threw |-> "none", out |-> out]

\* a handler that looks at app.silent first
onerrorSilentFirst(quiet, err) ==
    IF quiet THEN reported(<<>>)
    ELSE IF ~err.isError THEN raised("TypeError")
    ELSE IF err.status = 404 \/ err.expose THEN reported(<<>>)
    ELSE LET msg == IF err.stack # <<>> THEN err.stack ELSE err.text
         IN reported(<< <<>>, Indent(msg), <<>> >>)

\* a handler that reports the errors marked expose as well
onerrorReportExposed(quiet, err) ==
    IF ~err.isError THEN raised("TypeError")
    ELSE IF err.status = 404 THEN reported(<<>>)
    ELSE IF quiet THEN reported(<<>>)
    ELSE LET msg == IF err.stack # <<>> THEN err.stack ELSE err.text
         IN reported(<< <<>>, Indent(msg), <<>> >>)

\* Application.onerror(err), with quiet the application's silent setting
appOnerror(quiet, err) ==
    IF ~err.isError THEN raised("TypeError")
    ELSE IF err.status = 404 \/ err.expose THEN reported(<<>>)
    ELSE IF quiet THEN reported(<<>>)
    ELSE LET msg == IF err.stack # <<>> THEN err.stack ELSE err.text
         IN reported(<< <<>>, Indent(msg), <<>> >>)

InitErr ==
    /\ silent = FALSE
    /\ console = <<>>
    /\ errArg = NoErr

(***************************************************************************)
(* The specification of the application serving one request.               *)
(***************************************************************************)

NoRes ==
    [statusCode |-> 200, statusMessage |-> <<>>, headersSent |-> FALSE,
     contentType |-> "", contentLength |-> <<>>, transferEncoding |-> FALSE,
     socketWritable |-> TRUE, writableEnded |-> FALSE, endCalls |-> 0,
     payload |-> NoPayload, piped |-> FALSE, hdrOps |-> 0]
NoReq == [method |-> "GET", httpVersionMajor |-> 1, url |-> UrlA]
NoCtx == NewFields
NoArg == [called |-> FALSE, ctx |-> NoCtx, req |-> NoReq, res |-> NoRes]

InitApp ==
    /\ middleware = <<>>
    /\ listening = FALSE
    /\ lastThrow = "none"
    /\ lastReturn = Absent

InitHeap ==
    /\ heap = NewApplication
    /\ objs = [r \in Requests |-> 0]
    /\ wrote = {}

InitRun ==
    /\ phase = [r \in Requests |-> "idle"]
    /\ index = [r \in Requests |-> -1]
    /\ pc = [r \in Requests |-> [i \in 0..MaxMw |-> 0]]
    /\ D = [r \in Requests |-> [i \in 0..MaxMw |-> None]]
    /\ waiter = [r \in Requests |-> [i \in 0..MaxMw |-> FALSE]]
    /\ log = [r \in Requests |-> <<>>]
    /\ invoked = [r \in Requests |-> [i \in 0..MaxMw |-> 0]]
    /\ nextCalls = [r \in Requests |-> [i \in 0..MaxMw |-> 0]]
    /\ stack = <<>>
    /\ mq = <<>>

InitEnd ==
    /\ P1 = [r \in Requests |-> None]
    /\ respondCalls = [r \in Requests |-> 0]
    /\ respondArg = [r \in Requests |-> NoArg]
    /\ respondThrew = [r \in Requests |-> FALSE]
    /\ pendingAtRespond = [r \in Requests |-> {}]
    /\ onerrorArgs = [r \in Requests |-> <<>>]

Init ==
    /\ InitApp /\ InitErr /\ InitHeap /\ InitRun /\ InitEnd
    /\ arrivals = {"A"}
    /\ req = [r \in Requests |-> NoReq]
    /\ res = [r \in Requests |-> NoRes]
    /\ ctx = [r \in Requests |-> NoCtx]

Next ==
    \/ \E k \in Kinds : use(Fn(k, Len(middleware)))
    \/ use(NonFunction)
    \/ callback
    \/ \E r \in Requests, q \in PipelineInputs : handleRequest(r, q)
    \/ handleRequestThen
    \/ mwLog
    \/ mwSetBody
    \/ mwThrow
    \/ mwReturn
    \/ mwNext
    \/ mwAfterNext
    \/ resume
    \/ thenFulfilled
    \/ thenRejected
    \/ catchRejected
    \/ catchFulfilled

Spec == Init /\ [][Next]_vars

(***************************************************************************)
(* The specification of the application serving two requests at once: the  *)
(* middleware wait for outside events, and a request arrives, or an event  *)
(* is delivered, whenever nothing runs.                                    *)
(***************************************************************************)

InitConcurrent ==
    /\ InitApp /\ InitErr /\ InitHeap /\ InitRun /\ InitEnd
    /\ arrivals = Requests
    /\ req = [r \in Requests |-> NoReq]
    /\ res = [r \in Requests |-> NoRes]
    /\ ctx = [r \in Requests |-> NoCtx]

NextConcurrent ==
    \/ \E k \in IoKinds : use(Fn(k, Len(middleware)))
    \/ callback
    \/ \E r \in Requests, q \in PipelineInputs : handleRequest(r, q)
    \/ handleRequestThen
    \/ mwLog
    \/ mwIo
    \/ \E r \in Requests, i \in 0..(MaxMw - 1) : ioDone(r, i)
    \/ mwReturn
    \/ mwNext
    \/ mwAfterNext
    \/ resume
    \/ thenFulfilled
    \/ thenRejected
    \/ catchRejected
    \/ catchFulfilled

SpecConcurrent == InitConcurrent /\ [][NextConcurrent]_vars

(***************************************************************************)
(* The specification of the finalizer alone: request A's pipeline has been *)
(* fulfilled with its context and transport in any of the states below,    *)
(* and handleResponse runs on it.                                          *)
(***************************************************************************)

StatusCodes == {200, 204, 205, 304, 404, 999}

\* a status message the pipeline set itself (res.statusMessage)
CustomMessage == <<233>>

ResInputs ==
    [statusCode : StatusCodes, statusMessage : {<<>>, CustomMessage},
     headersSent : BOOLEAN, contentType : {"", "text/html"},
     contentLength : {<<>>, <<7>>}, transferEncoding : BOOLEAN,
     socketWritable : BOOLEAN, writableEnded : {FALSE}, endCalls : {0},
     payload : {NoPayload}, piped : {FALSE}, hdrOps : {0}]

CtxInputs ==
    {[respond |-> f, body |-> b, explicitNullBody |-> e,
      streamOpen |-> (b = StreamBody)] :
        f \in BOOLEAN, b \in Bodies, e \in BOOLEAN}

\* the requests respond() is run on
RespondInputs == {q \in ReqInputs : q.url = UrlA}

InitRespond ==
    /\ InitApp /\ InitErr /\ InitHeap /\ InitRun /\ InitEnd
    /\ arrivals = {}
    /\ req \in {[r \in Requests |-> IF r = "A" THEN q ELSE NoReq] : q \in RespondInputs}
    /\ res \in {[r \in Requests |-> IF r = "A" THEN t ELSE NoRes] : t \in ResInputs}
    /\ ctx \in {[r \in Requests |-> IF r = "A" THEN c ELSE NoCtx] : c \in CtxInputs}

\* the pipeline of A is fulfilled: handleResponse runs
finalize ==
    /\ respondCalls["A"] = 0
    /\ handleResponse("A")
    /\ UNCHANGED <<appVars, errVars, ctxVars, arrivals, req, runVars, P1, onerrorArgs, stack, mq>>

\* the piped stream signals its end: the pipe ends the response
streamEnd(r) ==
    /\ res[r].piped /\ ctx[r].streamOpen
    /\ ctx' = [ctx EXCEPT ![r].streamOpen = FALSE]
    /\ res' = [res EXCEPT ![r] = resEnd(@, NoPayload)]
    /\ UNCHANGED <<appVars, errVars, ctxVars, arrivals, req, runVars, endVars, stack, mq>>

(***************************************************************************)
(* The specification of the contexts alone: the two requests arrive in any *)
(* order, createContext builds a context for each, and the middleware      *)
(* write a property x on a context, on its facades and on its state.       *)
(***************************************************************************)

Facades == {"context", "request", "response", "state"}

\* the object request r reaches as ctx, ctx.request, ctx.response, ctx.state
facade(h, r, f) == IF f = "context" THEN objs[r] ELSE Get(h, objs[r], f).n

InitContext ==
    /\ InitApp /\ InitErr /\ InitHeap /\ InitRun /\ InitEnd
    /\ arrivals = Requests
    /\ req = [r \in Requests |-> NoReq]
    /\ res = [r \in Requests |-> NoRes]
    /\ ctx = [r \in Requests |-> NoCtx]

\* const ctx = this.createContext(req, res), for a request that arrives
newContext(r, q) ==
    /\ r \in arrivals
    /\ arrivals' = arrivals \ {r}
    /\ req' = [req EXCEPT ![r] = q]
    /\ LET made == createContext(incoming(heap, q), Len(heap) + 1, Len(heap) + 2)
       IN heap' = made.heap /\ objs' = [objs EXCEPT ![r] = made.context]
    /\ ctx' = [ctx EXCEPT ![r] = NewFields]
    /\ UNCHANGED <<appVars, errVars, wrote, res, runVars, endVars, stack, mq>>

\* a middleware step of request r: ctx.x = 1, ctx.request.x = 1,
\* ctx.response.x = 1 or ctx.state.x = 1
write(r, f) ==
    /\ objs[r] # 0
    /\ <<r, f>> \notin wrote
    /\ heap' = Put(heap, facade(heap, r, f), "x", Num(1))
    /\ wrote' = wrote \cup {<<r, f>>}
    /\ UNCHANGED <<appVars, errVars, objs, arrivals, ioVars, runVars, endVars, stack, mq>>

NextContext ==
    \/ \E r \in Requests, q \in ReqInputs : newContext(r, q)
    \/ \E r \in Requests, f \in Facades : write(r, f)

SpecContext == InitContext /\ [][NextContext]_vars

(***************************************************************************)
(* The specification of the application serving a request of any method    *)
(* and protocol version with middleware that set neither status nor body.  *)
(***************************************************************************)

PlainKinds == {"onion", "fire", "guard"}

NextPlain ==
    \/ \E k \in PlainKinds : use(Fn(k, Len(middleware)))
    \/ callback
    \/ \E r \in Requests, q \in RespondInputs : handleRequest(r, q)
    \/ handleRequestThen
    \/ mwLog
    \/ mwReturn
    \/ mwNext
    \/ mwAfterNext
    \/ resume
    \/ thenFulfilled
    \/ catchFulfilled

SpecPlain == Init /\ [][NextPlain]_vars

(***************************************************************************)
(* The specification of one request's urls: createContext captures         *)
(* req.url into originalUrl, and the middleware then write to the context  *)
(* and its facades, assign the raw request's url, and assign originalUrl   *)
(* on the context and on the request facade.                               *)
(***************************************************************************)

Urls == {UrlA, UrlB}

InitUrl ==
    /\ InitApp /\ InitErr /\ InitHeap /\ InitRun /\ InitEnd
    /\ arrivals = {"A"}
    /\ req = [r \in Requests |-> NoReq]
    /\ res = [r \in Requests |-> NoRes]
    /\ ctx = [r \in Requests |-> NoCtx]

\* a middleware step of request r: ctx.req.url = u (a url rewrite)
rewriteUrl(r, u) ==
    /\ objs[r] # 0
    /\ <<r, "req.url">> \notin wrote
    /\ heap' = Put(heap, Get(heap, objs[r], "req").n, "url", Str(u))
    /\ wrote' = wrote \cup {<<r, "req.url">>}
    /\ UNCHANGED <<appVars, errVars, objs, arrivals, ioVars, runVars, endVars, stack, mq>>

\* a middleware step of request r: ctx.originalUrl = u or
\* ctx.request.originalUrl = u
assignOriginalUrl(r, f, u) ==
    /\ objs[r] # 0
    /\ <<r, f \o ".originalUrl">> \notin wrote
    /\ heap' = Put(heap, facade(heap, r, f), "originalUrl", Str(u))
    /\ wrote' = wrote \cup {<<r, f \o ".originalUrl">>}
    /\ UNCHANGED <<appVars, errVars, objs, arrivals, ioVars, runVars, endVars, stack, mq>>

NextUrl ==
    \/ \E r \in Requests, q \in ReqInputs : newContext(r, q)
    \/ \E r \in Requests, f \in Facades : write(r, f)
    \/ \E r \in Requests, u \in Urls : rewriteUrl(r, u)
    \/ \E r \in Requests, f \in {"context", "request"}, u \in Urls :
           assignOriginalUrl(r, f, u)

SpecUrl == InitUrl /\ [][NextUrl]_vars

NextRespond ==
    \/ finalize
    \/ \E r \in Requests : streamEnd(r)

SpecRespond == InitRespond /\ [][NextRespond]_vars

(***************************************************************************)
(* The specification of Application.onerror alone.                         *)
(***************************************************************************)

InitOnerror ==
    /\ InitApp /\ InitHeap /\ InitRun /\ InitEnd
    /\ silent \in BOOLEAN
    /\ console = <<>>
    /\ errArg = NoErr
    /\ arrivals = {}
    /\ req = [r \in Requests |-> NoReq]
    /\ res = [r \in Requests |-> NoRes]
    /\ ctx = [r \in Requests |-> NoCtx]

\* the 'error' event is emitted with err: the listener runs
emitError(err) ==
    /\ errArg = NoErr
    /\ LET out == appOnerror(silent, err)
       IN /\ lastThrow' = out.threw
          /\ console' = console \o out.out
          /\ lastReturn' = Absent
    /\ errArg' = err
    /\ UNCHANGED <<middleware, listening, silent, ctxVars, arrivals, ioVars, runVars,
                   endVars, stack, mq>>

NextOnerror == \E err \in ErrInputs : emitError(err)

SpecOnerror == InitOnerror /\ [][NextOnerror]_vars

(***************************************************************************)
(* Properties.                                                             *)
(***************************************************************************)

N == Len(middleware)
Handling(r) == phase[r] = "handling"
\* the request's run has come to rest: nothing on the stack, no job queued
Quiet(r) == Handling(r) /\ stack = <<>> /\ mq = <<>>
AllOfKind(K) == \A i \in 1..N : middleware[i].kind \in K
IsPrefix(s, t) == Len(s) <= Len(t) /\ SubSeq(t, 1, Len(s)) = s

\* [0, 1, ..., n-1, n-1, ..., 1, 0]
OnionLog(n) == [k \in 1..(2 * n) |-> IF k <= n THEN k - 1 ELSE 2 * n - k]

\* C1: when every registered middleware appends its number, awaits its
\* continuation and appends its number again, the log of a run grows along
\* [0..N-1, N-1..0] and is exactly that when the run has come to rest, where
\* the pipeline is fulfilled; with no middleware the pipeline is fulfilled as
\* soon as it is called and the log stays empty.
C1_OnionOrder ==
    \A r \in Requests :
        (Handling(r) /\ AllOfKind({"onion"})) =>
            /\ IsPrefix(log[r], OnionLog(N))
            /\ Quiet(r) => (log[r] = OnionLog(N) /\ D[r][0] = Ok)
            /\ N = 0 => (D[r][0] = Ok /\ log[r] = <<>>)

C1_Witness ==
    \E r \in Requests :
        /\ Quiet(r) /\ AllOfKind({"onion"}) /\ N >= 3
        /\ log[r] = OnionLog(N)

\* the middleware that await every continuation call they make and pass its
\* failure on
Propagating == {"onion", "twiceAwait"}
\* the middleware that never drop the promise of a continuation call
Awaiting == Kinds \ {"fire", "twiceIgnore"}
Positions == 0..(N - 1)

\* C14: use(fn) with a value that is not a function throws a TypeError and
\* leaves the middleware list as it was; use(fn) with a function appends that
\* function, and nothing else, at the end of the list and returns the
\* application; so every entry of the list, and everything a request's run
\* invokes, is a function.
C14_UseRegisters ==
    /\ [](\A i \in 1..Len(middleware) : isFunction(middleware[i]))
    /\ [][
          /\ use(NonFunction) =>
                 /\ lastThrow' = "TypeError" /\ lastReturn' = Absent
                 /\ middleware' = middleware
          /\ \A k \in Kinds :
                 use(Fn(k, Len(middleware))) =>
                     /\ middleware' = Append(middleware, Fn(k, Len(middleware)))
                     /\ lastThrow' = "none" /\ lastReturn' = Ref(1)
          /\ middleware' # middleware =>
                 \E k \in Kinds : use(Fn(k, Len(middleware)))
       ]_vars

C14_Witness ==
    /\ lastThrow = "TypeError" /\ lastReturn = Absent
    /\ Len(middleware) = 2
    /\ middleware[1].id = 0 /\ middleware[2].id = 1

\* C2 as claimed: whenever a middleware has invoked its continuation twice,
\* the run ends with the pipeline failed with the composition-protocol error
\* and handleRequest on its failure path.
C2_Claimed ==
    \A r \in Requests : \A i \in Positions :
        (Quiet(r) /\ nextCalls[r][i] >= 2) =>
            (D[r][0] = Multi /\ onerrorArgs[r] = <<Multi>> /\ respondCalls[r] = 0)

\* C2, amended: when the middleware that invoked its continuation twice
\* awaits the second call without intercepting it, and every middleware
\* before it awaits its continuation without intercepting, the pipeline fails
\* with the composition-protocol error and handleRequest takes its failure
\* path: onerror gets that error, respond is not called.
C2_TwiceFails ==
    \A r \in Requests : \A i \in Positions :
        (/\ Quiet(r) /\ nextCalls[r][i] >= 2
         /\ kindAt(i) = "twiceAwait"
         /\ \A j \in 0..(i - 1) : kindAt(j) \in Propagating) =>
            /\ D[r][0] = Multi /\ P1[r] = Multi
            /\ onerrorArgs[r] = <<Multi>>
            /\ respondCalls[r] = 0

C2_Witness ==
    \E r \in Requests :
        /\ Quiet(r) /\ N >= 3
        /\ kindAt(0) = "onion" /\ kindAt(1) = "twiceAwait"
        /\ nextCalls[r][1] = 2
        /\ onerrorArgs[r] = <<Multi>>

\* C3: in one run no middleware function is invoked more than once, however
\* often the middleware invoke their continuations.
C3_InvokedOnce ==
    \A r \in Requests : \A i \in 0..MaxMw : invoked[r][i] <= 1

C3_Witness ==
    \E r \in Requests : \E i \in Positions :
        /\ Quiet(r) /\ i + 1 < N
        /\ nextCalls[r][i] = 2
        /\ invoked[r][i + 1] = 1

\* C5 as claimed: respond runs only once the pipeline is fulfilled, and by
\* then every middleware has finished.
C5_Claimed ==
    \A r \in Requests :
        respondCalls[r] >= 1 => (D[r][0] = Ok /\ pendingAtRespond[r] = {})

\* C5, amended: respond is invoked at most once, only with the pipeline
\* fulfilled (never while it is pending, never when it failed), and exactly
\* once when the run of a fulfilled pipeline has come to rest; when every
\* middleware awaits the continuation calls it makes, every middleware has
\* finished by then.
C5_RespondOnceAfterSuccess ==
    \A r \in Requests :
        /\ respondCalls[r] <= 1
        /\ respondCalls[r] = 1 => D[r][0] = Ok
        /\ (Quiet(r) /\ D[r][0] = Ok) => respondCalls[r] = 1
        /\ (respondCalls[r] = 1 /\ AllOfKind(Awaiting)) => pendingAtRespond[r] = {}

C5_Witness ==
    \E r \in Requests :
        /\ respondCalls[r] = 1 /\ N >= 3 /\ AllOfKind(Awaiting)
        /\ kindAt(0) = "onion" /\ kindAt(1) = "guard"
        /\ log[r] = <<0, 1, 2, 1, 0>>

\* C6 as claimed: a middleware failed and no middleware before it intercepts
\* failures, so the pipeline fails with the value thrown and onerror gets it.
C6_Claimed ==
    \A r \in Requests : \A k \in Positions :
        (/\ Quiet(r) /\ kindAt(k) = "thrower" /\ invoked[r][k] = 1
         /\ \A j \in 0..(k - 1) : kindAt(j) # "guard") =>
            (D[r][0] = Thrown(k) /\ onerrorArgs[r] = <<Thrown(k)>>)

\* C6, amended: when a middleware fails and every middleware before it awaits
\* its continuation without intercepting, the pipeline fails with the very
\* value thrown, handleRequest passes exactly that value to ctx.onerror, once,
\* and does not call respond.
C6_FailurePropagates ==
    \A r \in Requests : \A k \in Positions :
        (/\ Quiet(r) /\ kindAt(k) = "thrower" /\ invoked[r][k] = 1
         /\ \A j \in 0..(k - 1) : kindAt(j) \in Propagating) =>
            /\ D[r][0] = Thrown(k) /\ P1[r] = Thrown(k)
            /\ onerrorArgs[r] = <<Thrown(k)>>
            /\ respondCalls[r] = 0

C6_Witness ==
    \E r \in Requests :
        /\ Quiet(r) /\ N >= 3
        /\ kindAt(0) = "onion" /\ kindAt(1) = "onion" /\ kindAt(2) = "thrower"
        /\ onerrorArgs[r] = <<Thrown(2)>>

\* the middleware whose code never calls next()
NoNext == {k \in Kinds : \A j \in 1..Len(Prog(k)) : Prog(k)[j] \notin NextOps}
\* the middleware that do not fail on their own
Sound == Kinds \ {"thrower", "twiceAwait"}
\* [0, 1, ..., k, k-1, ..., 0]
ShortLog(k) == [j \in 1..(2 * k + 1) |-> IF j <= k + 1 THEN j - 1 ELSE 2 * k + 1 - j]
\* respond was handed the body 'hello' and ended the response with it
FinalizedHello(r) ==
    /\ respondCalls[r] = 1 /\ respondArg[r].ctx.body = Hello
    /\ res[r].endCalls = 1 /\ res[r].payload = [kind |-> "string", data |-> Hello.data]

RespondedPlain(r) == respondCalls[r] = 1 /\ respondArg[r].ctx.body = Undefined
NotFound == statuses(404)

\* C20 as claimed: the status is 404 from the moment handleRequest runs, and
\* when the pipeline is fulfilled with no status and no body set, the response
\* is finalized with status 404 and, below HTTP/2, with the text of 404 as
\* payload and its length as content-length.
C20_Claimed ==
    \A r \in Requests :
        /\ Handling(r) => res[r].statusCode = 404
        /\ (RespondedPlain(r) /\ req[r].httpVersionMajor < 2) =>
               /\ res[r].payload = [kind |-> "string", data |-> NotFound]
               /\ res[r].contentLength = <<Len(NotFound)>>

\* C20, amended: the status is 404 from the moment handleRequest runs, before
\* any middleware step; when the pipeline is fulfilled with no status and no
\* body set (also with no middleware at all), respond ends the response, once,
\* with status 404; for a request that is not HEAD the payload is the text of
\* 404 below HTTP/2 and "404" from HTTP/2 on, with content-type text/plain
\* and the payload's length in bytes as content-length; for a HEAD request
\* there is no payload.
C20_Default404 ==
    \A r \in Requests :
        /\ Handling(r) =>
               /\ res[r].statusCode = 404
               /\ Quiet(r) => RespondedPlain(r)
               /\ N = 0 => D[r][0] = Ok
        /\ RespondedPlain(r) =>
               /\ respondArg[r].res.statusCode = 404 /\ res[r].endCalls = 1
               /\ req[r].method # "HEAD" =>
                      /\ res[r].payload =
                             [kind |-> "string",
                              data |-> IF req[r].httpVersionMajor < 2 THEN NotFound
                                       ELSE <<52, 48, 52>>]
                      /\ res[r].contentLength = <<Len(res[r].payload.data)>>
                      /\ res[r].contentType = "text/plain"
                      /\ req[r].httpVersionMajor < 2 => res[r].contentLength = <<9>>
               /\ req[r].method = "HEAD" => res[r].payload = NoPayload

C20_Witness ==
    \E r \in Requests :
        /\ Quiet(r) /\ N = 0 /\ RespondedPlain(r)
        /\ req[r].method = "GET" /\ req[r].httpVersionMajor = 1
        /\ res[r].statusCode = 404 /\ res[r].contentLength = <<9>>
        /\ res[r].payload = [kind |-> "string", data |-> NotFound]

\* the run of r is over: its .then and .catch reactions have run
Finished(r) == Handling(r) /\ P1[r] # None /\ stack = <<>> /\ mq = <<>>

\* C18: with two requests in flight on the same handler, interleaved where
\* the middleware wait, the log of each run of onion middleware grows along
\* [0..N-1, N-1..0] and is exactly that when the run is over, the pipeline
\* fulfilled and respond called once; every run has its own dispatch index
\* and has invoked, once, the middleware up to it and no other; a
\* run fails with the 'next() called multiple times' error only if one of
\* its own middleware called its continuation twice, and a middleware that
\* did so and has finished did fail with that error, whatever the other run
\* did meanwhile; both runs end the same way.
C18_RunsIndependent ==
    \A r \in Requests :
        Handling(r) =>
            /\ index[r] >= 0
            /\ \A i \in 0..MaxMw : invoked[r][i] = (IF i < N /\ i <= index[r] THEN 1 ELSE 0)
            /\ AllOfKind({"ioOnion"}) =>
                   /\ IsPrefix(log[r], OnionLog(N))
                   /\ D[r][0] # Multi
                   /\ Finished(r) =>
                          /\ log[r] = OnionLog(N) /\ D[r][0] = Ok
                          /\ respondCalls[r] = 1 /\ onerrorArgs[r] = <<>>
            /\ \A i \in Positions :
                   /\ D[r][i] = Multi => \E j \in i..(N - 1) : nextCalls[r][j] = 2
                   /\ (nextCalls[r][i] = 2 /\ pc[r][i] = finishedPc(i)) => D[r][i] = Multi
            /\ (Finished(r) /\ ~AllOfKind({"ioOnion"})) =>
                   (D[r][0] = Multi /\ onerrorArgs[r] = <<Multi>> /\ respondCalls[r] = 0)
            /\ \A o \in Requests :
                   (Finished(r) /\ Finished(o)) => (log[r] = log[o] /\ D[r] = D[o])

C18_Witness ==
    /\ Handling("A") /\ Handling("B") /\ N >= 2 /\ AllOfKind({"ioOnion"})
    /\ D["A"][0] = Pending /\ index["A"] = N /\ Len(log["A"]) > N
    /\ D["B"][0] = Pending /\ index["B"] = 0 /\ log["B"] = <<0>>

(***************************************************************************)
(* Properties of respond(), on the state it was called in (respondArg) and *)
(* the transport response it left.                                         *)
(***************************************************************************)

\* respond was called for r and went past its two early returns
Proceeded(r) ==
    /\ respondArg[r].called
    /\ respondArg[r].ctx.respond
    /\ writable(respondArg[r].res)
InBody(r) == respondArg[r].ctx.body
InRes(r) == respondArg[r].res
InReq(r) == respondArg[r].req
EmptyStatus(r) == InRes(r).statusCode \in statusesEmpty
\* respond pipes the body instead of ending the response
Pipes(r) == ~EmptyStatus(r) /\ InReq(r).method # "HEAD" /\ InBody(r) = StreamBody
\* respond has to serialize a value that cannot be serialized
FailsToSerialize(r) ==
    /\ ~EmptyStatus(r) /\ InBody(r) = Circular
    /\ InReq(r).method = "HEAD" => (~InRes(r).headersSent /\ ~hasContentLength(InRes(r)))

\* C4 as claimed (here for the bodies that can be serialized): whenever
\* respond proceeds, end has been called exactly once when respond returns,
\* before anything else happens to the response.
C4_Claimed ==
    \A r \in Requests :
        (/\ Proceeded(r) /\ InBody(r) # Circular
         /\ ctx[r].streamOpen = respondArg[r].ctx.streamOpen) =>
            res[r].endCalls = 1

\* C4, amended: whenever respond proceeds, end is never called twice; it has
\* been called exactly once when respond returns, except that respond does not
\* call it for a stream body it pipes (the pipe ends the response, once, when
\* the stream ends) and throws before calling it on a structured value that
\* cannot be serialized.
C4_EndOnce ==
    \A r \in Requests :
        Proceeded(r) =>
            /\ res[r].endCalls <= 1
            /\ (~Pipes(r) /\ ~FailsToSerialize(r)) => res[r].endCalls = 1
            /\ Pipes(r) => res[r].endCalls = (IF ctx[r].streamOpen THEN 0 ELSE 1)
            /\ FailsToSerialize(r) => (res[r].endCalls = 0 /\ respondThrew[r])

C4_Witness ==
    \E r \in Requests :
        /\ Proceeded(r) /\ res[r].endCalls = 1
        /\ InReq(r).method = "HEAD" /\ InBody(r).type = "json" /\ InRes(r).headersSent

\* C8 as claimed: with a no-body status and a non-empty body, respond ends
\* the response with no payload and the response has no content-length and no
\* content-type header.
C8_Claimed ==
    \A r \in Requests :
        (Proceeded(r) /\ EmptyStatus(r) /\ InBody(r).type \notin {"undefined", "null"}) =>
            /\ res[r].endCalls = 1 /\ res[r].payload = NoPayload
            /\ res[r].contentLength = <<>> /\ res[r].contentType = ""

\* C8, amended: with a no-body status and a non-empty body of any type, for
\* any method, respond discards the body and ends the response with no
\* payload; when the headers had not been sent before, the response is left
\* with no content-length, content-type or transfer-encoding header, and
\* when they had, respond leaves the headers as they are.
C8_EmptyStatus ==
    \A r \in Requests :
        (Proceeded(r) /\ EmptyStatus(r) /\ InBody(r).type \notin {"undefined", "null"}) =>
            /\ res[r].endCalls = 1 /\ res[r].payload = NoPayload
            /\ ctx[r].body = Null
            /\ ~InRes(r).headersSent =>
                   /\ res[r].contentLength = <<>> /\ res[r].contentType = ""
                   /\ ~res[r].transferEncoding
            /\ InRes(r).headersSent =>
                   /\ res[r].contentLength = InRes(r).contentLength
                   /\ res[r].contentType = InRes(r).contentType

C8_Witness ==
    \E r \in Requests :
        /\ Proceeded(r) /\ InRes(r).statusCode = 204 /\ InReq(r).method = "HEAD"
        /\ InBody(r).type = "buffer" /\ InBody(r).data # <<>>
        /\ InRes(r).contentType = "text/html" /\ ~InRes(r).headersSent
        /\ res[r].contentType = "" /\ res[r].endCalls = 1

\* the fallback body of a status: its message below HTTP/2 (the code in
\* digits when it has none), the code in digits from HTTP/2 on
Fallback(r) ==
    IF InReq(r).httpVersionMajor < 2 /\ message(InRes(r)) # <<>>
    THEN message(InRes(r))
    ELSE Digits(InRes(r).statusCode)

\* C9: for a non-HEAD request with a status outside the no-body class, a
\* null or undefined body and no explicit-null flag, respond ends the response
\* with the fallback text as payload; if the headers were unsent it sets
\* content-type to plain text and content-length to the payload's length in
\* bytes.  Status 200 below HTTP/2 with no message of its own gives "OK" and 2.
C9_FallbackBody ==
    \A r \in Requests :
        (/\ Proceeded(r) /\ ~EmptyStatus(r) /\ InReq(r).method # "HEAD"
         /\ InBody(r).type \in {"undefined", "null"}
         /\ ~respondArg[r].ctx.explicitNullBody) =>
            /\ res[r].endCalls = 1
            /\ res[r].payload = [kind |-> "string", data |-> Fallback(r)]
            /\ ~InRes(r).headersSent =>
                   /\ res[r].contentType = "text/plain"
                   /\ res[r].contentLength = <<ByteLength(res[r].payload.data)>>
            /\ (/\ InRes(r).statusCode = 200 /\ InReq(r).httpVersionMajor = 1
                /\ InRes(r).statusMessage = <<>>) =>
                   /\ res[r].payload.data = <<79, 75>>
                   /\ ~InRes(r).headersSent => res[r].contentLength = <<2>>

C9_Witness ==
    \E r \in Requests :
        /\ Proceeded(r) /\ InRes(r).statusCode = 200 /\ InReq(r).method = "GET"
        /\ InReq(r).httpVersionMajor = 1 /\ InBody(r) = Undefined
        /\ ~respondArg[r].ctx.explicitNullBody /\ ~InRes(r).headersSent
        /\ res[r].payload = [kind |-> "string", data |-> <<79, 75>>]
        /\ res[r].contentLength = <<2>>

\* C10 as claimed: for a byte-sequence body and a status outside the no-body
\* class, whatever the method, the payload given to end is that sequence.
C10_Claimed ==
    \A r \in Requests :
        (Proceeded(r) /\ ~EmptyStatus(r) /\ InBody(r).type = "buffer") =>
            res[r].payload = [kind |-> "buffer", data |-> InBody(r).data]

\* C10, amended: for a byte-sequence body, a status outside the no-body
\* class and a request that is not HEAD, whatever the headers-sent state, the
\* payload respond gives to end is that very byte sequence, and end is called
\* once.
C10_BufferIdentical ==
    \A r \in Requests :
        (/\ Proceeded(r) /\ ~EmptyStatus(r) /\ InBody(r).type = "buffer"
         /\ InReq(r).method # "HEAD") =>
            /\ res[r].payload = [kind |-> "buffer", data |-> InBody(r).data]
            /\ res[r].endCalls = 1

C10_Witness ==
    \E r \in Requests :
        /\ Proceeded(r) /\ InRes(r).statusCode = 404 /\ InReq(r).method = "GET"
        /\ InRes(r).headersSent
        /\ InBody(r) = [type |-> "buffer", data |-> <<200, 0>>]
        /\ res[r].payload = [kind |-> "buffer", data |-> <<200, 0>>]

\* C11: when respond runs on an open stream body (request not HEAD, status
\* outside the no-body class), it connects the stream to the response and
\* does not end the response itself: as long as the stream is open the
\* response has not been ended, and it is ended, once, when the stream has
\* signalled its end.
C11_StreamEndsLast ==
    \A r \in Requests :
        (Proceeded(r) /\ Pipes(r) /\ respondArg[r].ctx.streamOpen) =>
            /\ res[r].piped
            /\ ctx[r].streamOpen =>
                   /\ res[r].endCalls = 0 /\ ~res[r].writableEnded
                   /\ res[r].payload = NoPayload
            /\ ~ctx[r].streamOpen => res[r].endCalls = 1

C11_Witness ==
    \E r \in Requests :
        /\ Proceeded(r) /\ Pipes(r) /\ respondArg[r].ctx.streamOpen
        /\ InRes(r).statusCode = 200 /\ ~InRes(r).headersSent
        /\ res[r].piped /\ ~ctx[r].streamOpen /\ res[r].endCalls = 1

\* the body headers of a transport response
Headers(t) == <<t.contentType, t.contentLength, t.transferEncoding>>

ComputesLength(r) == ~InRes(r).headersSent /\ ~hasContentLength(InRes(r))
\* the length in bytes of the payload a body would be sent as, for the bodies
\* that have one: a byte sequence, a text, a structured value
PayloadLength(b) ==
    CASE b.type = "buffer" -> Len(b.data)
      [] b.type = "string" -> ByteLength(b.data)
      [] b.type = "json" -> ByteLength(JSONstringify(b.data))
\* the length of the fallback text respond would send for an absent body
FallbackLength(r) == ByteLength(Fallback(r))
HeadCase(r) == Proceeded(r) /\ ~EmptyStatus(r) /\ InReq(r).method = "HEAD"

Emitted == errArg # NoErr
\* the report of an error: an empty line, its stack (what toString() gives
\* when it has no stack) with every line indented, an empty line
Report(err) ==
    << <<>>, Indent(IF err.stack # <<>> THEN err.stack ELSE err.text), <<>> >>

\* C12: called with a value that is not an Error instance, the handler throws
\* a TypeError, whether or not the application is silent and whatever status
\* or expose mark the value carries, and writes nothing to the console.
C12_NonErrorThrows ==
    (Emitted /\ ~errArg.isError) => (lastThrow = "TypeError" /\ console = <<>>)

C12_Witness ==
    /\ Emitted /\ ~errArg.isError /\ silent /\ errArg.status = 404 /\ errArg.expose
    /\ lastThrow = "TypeError" /\ console = <<>>

\* C13: called with an Error instance, the handler returns without throwing;
\* it writes the report of the error to the console if and only if the
\* error's status is not 404, the error is not marked expose and the
\* application is not silent, and writes nothing otherwise.
C13_ReportsIff ==
    (Emitted /\ errArg.isError) =>
        /\ lastThrow = "none"
        /\ console \in {<<>>, Report(errArg)}
        /\ console = Report(errArg) <=>
               (errArg.status # 404 /\ ~errArg.expose /\ ~silent)

C13_Witness ==
    /\ Emitted /\ errArg.isError /\ errArg.status = 500 /\ ~errArg.expose /\ ~silent
    /\ errArg.stack = <<69, 10, 97>>
    /\ console = << <<>>, <<32, 32, 69, 10, 32, 32, 97>>, <<>> >>

(***************************************************************************)
(* Properties of createContext.                                            *)
(***************************************************************************)

Created(r) == objs[r] # 0

\* C7: the contexts of two requests, their facades and their state mappings
\* are distinct objects; a state mapping is empty until its own request
\* writes to it; and x is read through a request's context, facade or state
\* only after that request's middleware wrote it there: a write on A (state.x
\* = 1) leaves x undefined on B.
C7_Isolation ==
    \A a \in Requests :
        Created(a) =>
            /\ \A f \in Facades :
                   <<a, f>> \notin wrote => Get(heap, facade(heap, a, f), "x") = Absent
            /\ <<a, "state">> \notin wrote =>
                   /\ heap[facade(heap, a, "state")].proto = 0
                   /\ \A p \in Props : heap[facade(heap, a, "state")].own[p] = Absent
            /\ \A b \in Requests \ {a} :
                   Created(b) =>
                       \A f, g \in Facades : facade(heap, a, f) # facade(heap, b, g)

C7_Witness ==
    /\ Created("A") /\ Created("B")
    /\ wrote = {<<"A", f>> : f \in Facades}
    /\ Get(heap, facade(heap, "A", "state"), "x") = Num(1)
    /\ Get(heap, facade(heap, "B", "state"), "x") = Absent
    /\ Get(heap, facade(heap, "B", "request"), "x") = Absent

\* what request r reads as ctx.originalUrl and as ctx.request.originalUrl
originalUrl(r, f) == Get(heap, facade(heap, r, f), "originalUrl")
\* the url the raw request had when createContext ran
Captured(r) == Str(req[r].url)
Assigned(r, f) == <<r, f \o ".originalUrl">> \in wrote

\* C15 as claimed: once createContext has captured the raw request's url,
\* ctx.originalUrl and ctx.request.originalUrl keep that value in every later
\* state of the request, whatever the middleware assign.
C15_Claimed ==
    \A r \in Requests :
        Created(r) =>
            /\ originalUrl(r, "context") = Captured(r)
            /\ originalUrl(r, "request") = Captured(r)

\* C15, what holds: originalUrl is the captured url on the context and on the
\* request facade as long as no middleware has assigned it there; a later
\* assignment of the raw request's url, or of any other property, leaves it.
C15_SnapshotKept ==
    \A r \in Requests : \A f \in {"context", "request"} :
        (Created(r) /\ ~Assigned(r, f)) => originalUrl(r, f) = Captured(r)

C15_Witness ==
    /\ Created("A") /\ Captured("A") = Str(UrlA)
    /\ <<"A", "req.url">> \in wrote
    /\ Get(heap, Get(heap, objs["A"], "req").n, "url") = Str(UrlB)
    /\ Assigned("A", "context") /\ ~Assigned("A", "request")
    /\ originalUrl("A", "context") = Str(UrlB)
    /\ originalUrl("A", "request") = Str(UrlA)

====
